---- MODULE Spec2Model ----
(***************************************************************************)
(* A model of the YouVersion API client (youversion/youversion.py): the    *)
(* client object API with its language, its current Bible version and its  *)
(* lazily fetched cache of supported Bible versions, the value types built *)
(* from the service's JSON, and the requests each operation sends.         *)
(*                                                                         *)
(* The remote service is the environment: every request is answered by a   *)
(* response chosen from a small set (an HTTP error, or a JSON document).   *)
(***************************************************************************)
EXTENDS Integers, Sequences, FiniteSets, TLC

VARIABLES
    token,                    \* self._token
    language,                 \* self.__language
    bible_version,            \* self.__bible_version
    supported_bible_version,  \* self._supported_bible_version
    call,                     \* the last operation: its name, argument, outcome, requests and responses
    fetched,                  \* history: an access of bible_versions has returned
    assigned_version,         \* history: value of the last successful bible_version assignment
    assigned_language,        \* history: code of the last successful language assignment
    image,                    \* an Image held by the caller, or None
    image_call,               \* the last operation on the image: its name, arguments, outcome
    today,                    \* the day of the year that current_day_of_year() returns now
    default_day               \* the default of get_verse_of_the_day's day parameter

vars == << token, language, bible_version, supported_bible_version, call,
           fetched, assigned_version, assigned_language,
           image, image_call, today, default_day >>

---------------------------------------------------------------------------
(* Python values.  Values of different Python types are tagged records, so *)
(* that a value is first told apart by its type.                           *)

None == [t |-> "none"]
PyInt(n) == [t |-> "int", v |-> n]
PyStr(s) == [t |-> "str", v |-> s]
PyBool(b) == [t |-> "bool", v |-> b]
PyList(s) == [t |-> "list", v |-> s]

\* A JSON object is a function from its keys; {} is the function with no key.
EmptyDict == << >>

\* dict.get(key, default)
Get(json, key, default) == IF key \in DOMAIN json THEN json[key] ELSE default

\* Sequences over S of length at most n.
SeqUpTo(S, n) == UNION { [1..k -> S] : k \in 0..n }

---------------------------------------------------------------------------
(* Bounds of the model.                                                    *)

\* Longest 'data' list of a 'versions' response.
MaxVersions == 2
\* Longest 'data' list of a bulk 'verse_of_the_day' response.
MaxData == 2

---------------------------------------------------------------------------
(* class Language: the class namespace, Language.__dict__.                 *)

LanguageAttributes ==
    [ Afrikaans |-> "af", Chinese_Simplified |-> "zh_CN",
      Chinese_Traditional |-> "zh_TW", Dutch |-> "nl", English |-> "en",
      French |-> "fr", German |-> "de", Greek |-> "el", Indonesian |-> "id",
      Italian |-> "it", Khmer |-> "km", Korean |-> "ko", Portuguese |-> "pt",
      Romanian |-> "ro", Russian |-> "ru", Spanish |-> "es", Swahili |-> "sw",
      Swedish |-> "sv", Tagalog |-> "tl", Filipino |-> "tl", Ukrainian |-> "uk",
      Vietnamese |-> "vi", Zulu |-> "zu" ]

\* What Python adds to the namespace of every class statement.  The two
\* descriptors are not strings; they stand here as their repr.
LanguageClassEntries ==
    ("__module__" :> "youversion.youversion")
    @@ ("__doc__" :> "\n    Supported API languages\n    ")
    @@ ("__dict__" :> "<attribute '__dict__' of 'Language' objects>")
    @@ ("__weakref__" :> "<attribute '__weakref__' of 'Language' objects>")

LanguageDict == LanguageAttributes @@ LanguageClassEntries

\* Language.__dict__.values(), as far as a str can equal one of them.
LanguageDictValues ==
    { LanguageDict[k] : k \in DOMAIN LanguageDict \ {"__dict__", "__weakref__"} }

\* The supported languages: display name -> code.
LanguageNames == DOMAIN LanguageAttributes
LanguageCodes == { LanguageAttributes[k] : k \in LanguageNames }

---------------------------------------------------------------------------
(* class BibleVersion                                                      *)

BibleVersion(json) ==
    [ t |-> "BibleVersion",
      id |-> Get(json, "id", None),
      title |-> Get(json, "title", ""),
      abbreviation |-> Get(json, "abbreviation", ""),
      local_title |-> Get(json, "local_title", ""),
      local_abbreviation |-> Get(json, "local_abbreviation", ""),
      copyright |-> Get(json, "copyright_short", "") ]

\* BibleVersion.KJV with its id under another key.
KJV_without_id ==
    BibleVersion([ version_id |-> PyInt(1),
                   title |-> "King James Version",
                   abbreviation |-> "KJV",
                   copyright_short |-> "Crown Copyright in UK",
                   local_title |-> "King James Version",
                   local_abbreviation |-> "KJV" ])

KJV ==
    BibleVersion([ id |-> PyInt(1),
                   title |-> "King James Version",
                   abbreviation |-> "KJV",
                   copyright_short |-> "Crown Copyright in UK",
                   local_title |-> "King James Version",
                   local_abbreviation |-> "KJV" ])

---------------------------------------------------------------------------
(* class Verse, class Image, class VerseOfTheDay                           *)

Verse(bv, json) ==
    [ bible_version |-> bv,
      reference |-> Get(json, "human_reference", ""),
      text |-> Get(json, "text", ""),
      html |-> Get(json, "html", ""),
      url |-> Get(json, "url", ""),
      usfms |-> Get(json, "usfms", << >>) ]

\* A URL is a sequence of pieces of text; f'https:{url}' puts one in front.
Image(verse, json) ==
    [ verse |-> verse,
      url |-> << "https:" >> \o Get(json, "url", << >>),
      attribution |-> Get(json, "attribution", "") ]

\* Image.MAX_SIZE
MAX_SIZE == 1280

\* Image._check_size: TRUE when InvalidImageSize is raised.
_check_size(size) == size > MAX_SIZE

\* str.replace on a text kept as a sequence of pieces.
Replace(text, old, new) ==
    [ i \in 1..Len(text) |-> IF text[i] = old THEN new ELSE text[i] ]

\* Image.url checking the width only.
Image_url_width_only(img, width, height) ==
    IF _check_size(width)
    THEN [ outcome |-> "InvalidImageSize", value |-> None ]
    ELSE [ outcome |-> "return",
           value |-> PyStr(Replace(Replace(img.url, "{width}", ToString(width)),
                                   "{height}", ToString(height))) ]

\* Image.url
Image_url(img, width, height) ==
    IF _check_size(width) \/ _check_size(height)
    THEN [ outcome |-> "InvalidImageSize", value |-> None ]
    ELSE [ outcome |-> "return",
           value |-> PyStr(Replace(Replace(img.url, "{width}", ToString(width)),
                                   "{height}", ToString(height))) ]

\* Image.square_url
Image_square_url(img, size) == Image_url(img, size, size)

VerseOfTheDay(bv, json) ==
    LET verse == Verse(bv, Get(json, "verse", EmptyDict))
    IN  [ t |-> "VerseOfTheDay",
          bible_version |-> bv,
          day |-> Get(json, "day", None),
          verse |-> verse,
          image |-> Image(verse, Get(json, "image", EmptyDict)) ]

---------------------------------------------------------------------------
(* The remote service: what it may answer.                                 *)

\* The JSON of Bible versions the service may list.  Two of them share the
\* abbreviation ASV; the second has no id.
JsonKJV ==
    [ id |-> PyInt(1), title |-> "King James Version", abbreviation |-> "KJV",
      copyright_short |-> "Crown Copyright in UK",
      local_title |-> "King James Version", local_abbreviation |-> "KJV" ]
JsonASV ==
    [ id |-> PyInt(12), title |-> "American Standard Version",
      abbreviation |-> "ASV", copyright_short |-> "Public Domain",
      local_title |-> "American Standard Version", local_abbreviation |-> "ASV" ]
JsonASVOther == [ title |-> "Another American Standard Version", abbreviation |-> "ASV" ]
VersionJsons == { JsonKJV, JsonASV, JsonASVOther }

HTTPErrorResponse == [ ok |-> FALSE, json |-> EmptyDict ]
OkResponse(json) == [ ok |-> TRUE, json |-> json ]

\* Answers to GET versions: an error status, a document without 'data', or a
\* 'data' list of versions (possibly empty, possibly with duplicates).
VersionsResponses ==
    { HTTPErrorResponse, OkResponse(EmptyDict) }
    \cup { OkResponse([ data |-> d ]) : d \in SeqUpTo(VersionJsons, MaxVersions) }

\* The JSON of a verse of the day, with and without its 'day'.
JsonVerse ==
    [ human_reference |-> "John 3:16", text |-> "For God so loved the world",
      html |-> "<p>For God so loved the world</p>",
      url |-> "https://www.bible.com/bible/1/JHN.3.16", usfms |-> << "JHN.3.16" >> ]
JsonImage ==
    [ url |-> << "//imageproxy.youversionapi.com/", "{width}", "x", "{height}", "/votd.jpg" >>,
      attribution |-> "YouVersion" ]
\* Other images: one whose template names the width twice, one without
\* placeholders.
JsonImageSquare ==
    [ url |-> << "//imageproxy.youversionapi.com/", "{width}", "x", "{width}", "/votd.jpg" >>,
      attribution |-> "YouVersion" ]
JsonImageFixed ==
    [ url |-> << "//imageproxy.youversionapi.com/votd.jpg" >> ]
ImageJsons == { JsonImage, JsonImageSquare, JsonImageFixed, EmptyDict }

JsonVotd(d) == [ day |-> PyInt(d), verse |-> JsonVerse, image |-> JsonImage ]
JsonVotdNoDay == [ verse |-> JsonVerse ]

\* The days the service may put in a verse of the day.
ResponseDays == { 90, 400 }
VotdJsons == { JsonVotd(d) : d \in ResponseDays } \cup { JsonVotdNoDay }

\* Answers to GET verse_of_the_day/{day}.
VotdResponses == { HTTPErrorResponse } \cup { OkResponse(j) : j \in VotdJsons }

\* Answers to GET verse_of_the_day: an error status, an empty document, a
\* document without 'data', or a 'data' list with or without 'next_page' and
\* 'page_size'.
PageSizes == { 1 }
BulkEntries == { JsonVotd(90), JsonVotdNoDay }
BulkJsons ==
    { EmptyDict, [ next_page |-> FALSE ] }
    \cup { [ data |-> d ] : d \in SeqUpTo(BulkEntries, MaxData) }
    \cup { [ data |-> d, next_page |-> TRUE, page_size |-> n ] :
             d \in SeqUpTo(BulkEntries, MaxData), n \in PageSizes }
BulkResponses == { HTTPErrorResponse } \cup { OkResponse(j) : j \in BulkJsons }

---------------------------------------------------------------------------
(* class API                                                               *)

BASE_URL == "https://developers.youversionapi.com/1.0"

\* The result of a method: how it ended ("return" or the exception raised),
\* what it returned, the cache it leaves, the requests it sent, the responses
\* it received for them and the responses of the service it has not consumed.
\* `accessed` records that an access of bible_versions has returned.
Result(outcome, value, cache, requests, resps) ==
    [ outcome |-> outcome, value |-> value, cache |-> cache,
      requests |-> requests, received |-> << >>, resps |-> resps,
      accessed |-> FALSE ]

\* The method needs one more response of the service than it was given.
Starved == "starved"

\* _header with the default language in place of the current one.
_header_default_language(tok, lang) ==
    [ accept |-> "application/json",
      x_youversion_developer_token |-> tok,
      accept_language |-> LanguageAttributes["English"] ]

\* API._header
_header(tok, lang) ==
    [ accept |-> "application/json",
      x_youversion_developer_token |-> tok,
      accept_language |-> lang ]

\* API._get: the resource is the sequence of its path segments.
_get(tok, lang, cache, resource, params, resps) ==
    LET request == [ url |-> << BASE_URL >> \o resource,
                     headers |-> _header(tok, lang),
                     params |-> params ]
    IN  IF resps = << >>
        THEN Result(Starved, None, cache, << >>, resps)
        ELSE IF Head(resps).ok
        THEN [ Result("return", Head(resps).json, cache, << request >>, Tail(resps))
                 EXCEPT !.received = << Head(resps) >> ]
        ELSE [ Result("HTTPError", None, cache, << request >>, Tail(resps))
                 EXCEPT !.received = << Head(resps) >> ]

\* The loop storing every version it meets: the last occurrence wins.
RECURSIVE Populate_overwriting(_, _)
Populate_overwriting(cache, data) ==
    IF data = << >>
    THEN cache
    ELSE LET bv == BibleVersion(Head(data))
         IN  Populate_overwriting((bv.abbreviation :> bv) @@ cache, Tail(data))

\* The loop of API.bible_versions over versions.get('data').
RECURSIVE Populate(_, _)
Populate(cache, data) ==
    IF data = << >>
    THEN cache
    ELSE LET bv == BibleVersion(Head(data))
         IN  Populate(IF bv.abbreviation \notin DOMAIN cache
                      THEN cache @@ (bv.abbreviation :> bv)
                      ELSE cache,
                      Tail(data))

\* API.bible_versions (property)
bible_versions(tok, lang, cache, resps) ==
    IF Cardinality(DOMAIN cache) <= 0
    THEN LET versions == _get(tok, lang, cache, << "versions" >>, EmptyDict, resps)
         IN  IF versions.outcome # "return"
             THEN versions
             ELSE IF "data" \notin DOMAIN versions.value
             THEN \* iterating over None
                  [ versions EXCEPT !.outcome = "TypeError", !.value = None ]
             ELSE LET filled == Populate(cache, versions.value["data"])
                  IN  [ versions EXCEPT !.value = filled, !.cache = filled,
                                        !.accessed = TRUE ]
    ELSE [ Result("return", cache, cache, << >>, resps) EXCEPT !.accessed = TRUE ]

\* API.get_bible_version
get_bible_version(tok, lang, cache, abbreviation, resps) ==
    LET versions == bible_versions(tok, lang, cache, resps)
    IN  IF versions.outcome # "return"
        THEN versions
        ELSE IF abbreviation \in DOMAIN versions.value
        THEN [ versions EXCEPT !.value = versions.cache[abbreviation] ]
        ELSE [ versions EXCEPT !.outcome = "InvalidBibleVersion", !.value = None ]

\* supports_bible_version without its except clause.
supports_bible_version_no_except(tok, lang, cache, abbreviation, resps) ==
    LET got == get_bible_version(tok, lang, cache, abbreviation, resps)
    IN  IF got.outcome = "return" THEN [ got EXCEPT !.value = PyBool(TRUE) ] ELSE got

\* API.supports_bible_version
supports_bible_version(tok, lang, cache, abbreviation, resps) ==
    LET got == get_bible_version(tok, lang, cache, abbreviation, resps)
    IN  IF got.outcome = "return"
        THEN [ got EXCEPT !.value = PyBool(TRUE) ]
        ELSE IF got.outcome = "InvalidBibleVersion"
        THEN [ got EXCEPT !.outcome = "return", !.value = PyBool(FALSE) ]
        ELSE got

\* The language setter storing the value before it validates it.
language_setter_assign_first(current, v) ==
    IF v \in DOMAIN LanguageDict
    THEN [ outcome |-> "return", language |-> LanguageDict[v] ]
    ELSE IF v \in LanguageDictValues
    THEN [ outcome |-> "return", language |-> v ]
    ELSE [ outcome |-> "UnsupportedLanguage", language |-> v ]

\* API.language (setter): the new language, or the exception raised.
language_setter(current, v) ==
    IF v \in DOMAIN LanguageDict
    THEN [ outcome |-> "return", language |-> LanguageDict[v] ]
    ELSE IF v \in LanguageDictValues
    THEN [ outcome |-> "return", language |-> v ]
    ELSE [ outcome |-> "UnsupportedLanguage", language |-> current ]

\* The setter without its final raise: a value it cannot resolve is ignored.
bible_version_setter_no_raise(tok, lang, cache, current, v, resps) ==
    IF v.t = "BibleVersion"
    THEN Result("return", v, cache, << >>, resps)
    ELSE IF v.t = "str"
    THEN LET supports == supports_bible_version(tok, lang, cache, v.v, resps)
         IN  IF supports.outcome # "return"
             THEN [ supports EXCEPT !.value = current ]
             ELSE IF supports.value.v
             THEN [ supports EXCEPT !.value = supports.cache[v.v] ]
             ELSE [ supports EXCEPT !.value = current ]
    ELSE Result("return", current, cache, << >>, resps)

\* API.bible_version (setter): the result's value is the current version it
\* leaves.
bible_version_setter(tok, lang, cache, current, v, resps) ==
    IF v.t = "BibleVersion"
    THEN Result("return", v, cache, << >>, resps)
    ELSE IF v.t = "str"
    THEN LET supports == supports_bible_version(tok, lang, cache, v.v, resps)
         IN  IF supports.outcome # "return"
             THEN [ supports EXCEPT !.value = current ]
             ELSE IF supports.value.v
             THEN LET got == get_bible_version(tok, lang, supports.cache, v.v,
                                               supports.resps)
                      sent == supports.requests \o got.requests
                      answers == supports.received \o got.received
                  IN  IF got.outcome = "return"
                      THEN [ got EXCEPT !.requests = sent, !.received = answers ]
                      ELSE [ got EXCEPT !.requests = sent, !.received = answers,
                                        !.value = current,
                                        !.accessed = supports.accessed ]
             ELSE [ supports EXCEPT !.outcome = "InvalidBibleVersion",
                                    !.value = current ]
    ELSE Result("InvalidBibleVersion", current, cache, << >>, resps)

MinDay == 1
MaxDay == 366

\* get_verse_of_the_day with the upper bound off by one.
get_verse_of_the_day_off_by_one(tok, lang, cache, current, day, resps) ==
    IF day < MinDay \/ day >= MaxDay
    THEN Result("DayOutOfBounds", None, cache, << >>, resps)
    ELSE LET json == _get(tok, lang, cache, << "verse_of_the_day", day >>,
                          [ version_id |-> current.id ], resps)
         IN  IF json.outcome # "return"
             THEN json
             ELSE [ json EXCEPT !.value = VerseOfTheDay(current, json.value) ]

\* get_verse_of_the_day asking for the default version instead of the
\* current one.
get_verse_of_the_day_default_version(tok, lang, cache, current, day, resps) ==
    IF day < MinDay \/ day > MaxDay
    THEN Result("DayOutOfBounds", None, cache, << >>, resps)
    ELSE LET json == _get(tok, lang, cache, << "verse_of_the_day", day >>,
                          [ version_id |-> KJV.id ], resps)
         IN  IF json.outcome # "return"
             THEN json
             ELSE [ json EXCEPT !.value = VerseOfTheDay(current, json.value) ]

\* API.get_verse_of_the_day
get_verse_of_the_day(tok, lang, cache, current, day, resps) ==
    IF day < MinDay \/ day > MaxDay
    THEN Result("DayOutOfBounds", None, cache, << >>, resps)
    ELSE LET json == _get(tok, lang, cache, << "verse_of_the_day", day >>,
                          [ version_id |-> current.id ], resps)
         IN  IF json.outcome # "return"
             THEN json
             ELSE [ json EXCEPT !.value = VerseOfTheDay(current, json.value) ]

\* [VerseOfTheDay(bible_version=..., json=data) for data in ...]
VerseOfTheDays(current, data) == [ i \in 1..Len(data) |-> VerseOfTheDay(current, data[i]) ]

\* The tuple API.get_all_verse_of_the_days returns.
Page(next_page, page_size, votds) ==
    [ t |-> "tuple", next_page |-> next_page, page_size |-> page_size, votds |-> votds ]

\* get_all_verse_of_the_days giving None for every empty result.
get_all_verse_of_the_days_none_if_empty(tok, lang, cache, current, limit, page, resps) ==
    LET json == _get(tok, lang, cache, << "verse_of_the_day" >>,
                     [ version_id |-> current.id ], resps)
    IN  IF json.outcome # "return"
        THEN json
        ELSE IF DOMAIN json.value = {} \/ "data" \notin DOMAIN json.value
                \/ Get(json.value, "data", << >>) = << >>
        THEN [ json EXCEPT !.value = Page(FALSE, 0, None) ]
        ELSE LET votds == VerseOfTheDays(current, Get(json.value, "data", << >>))
                 next_page == Get(json.value, "next_page", FALSE)
                 page_size == Get(json.value, "page_size", Len(votds))
             IN  [ json EXCEPT !.value = Page(next_page, page_size, PyList(votds)) ]

\* get_all_verse_of_the_days sending limit and page with the request.
get_all_verse_of_the_days_paged(tok, lang, cache, current, limit, page, resps) ==
    LET json == _get(tok, lang, cache, << "verse_of_the_day" >>,
                     [ version_id |-> current.id, limit |-> PyInt(limit),
                       page |-> PyInt(page) ], resps)
    IN  IF json.outcome # "return"
        THEN json
        ELSE IF DOMAIN json.value = {} \/ "data" \notin DOMAIN json.value
        THEN [ json EXCEPT !.value = Page(FALSE, 0, None) ]
        ELSE LET votds == VerseOfTheDays(current, Get(json.value, "data", << >>))
                 next_page == Get(json.value, "next_page", FALSE)
                 page_size == Get(json.value, "page_size", Len(votds))
             IN  [ json EXCEPT !.value = Page(next_page, page_size, PyList(votds)) ]

\* API.get_all_verse_of_the_days
get_all_verse_of_the_days(tok, lang, cache, current, limit, page, resps) ==
    LET json == _get(tok, lang, cache, << "verse_of_the_day" >>,
                     [ version_id |-> current.id ], resps)
    IN  IF json.outcome # "return"
        THEN json
        ELSE IF DOMAIN json.value = {} \/ "data" \notin DOMAIN json.value
        THEN [ json EXCEPT !.value = Page(FALSE, 0, None) ]
        ELSE LET votds == VerseOfTheDays(current, Get(json.value, "data", << >>))
                 next_page == Get(json.value, "next_page", FALSE)
                 page_size == Get(json.value, "page_size", Len(votds))
             IN  [ json EXCEPT !.value = Page(next_page, page_size, PyList(votds)) ]

---------------------------------------------------------------------------
(* The caller: the arguments it passes.                                    *)

LanguageInputs == { "Spanish", "es", "BAD_LANG", "__module__" }

Abbreviations == { "KJV", "ASV", "BAD_VERSION" }

\* Values assigned to bible_version: abbreviations, a BibleVersion object and
\* a value of another type.
JsonNIV == [ id |-> PyInt(111), title |-> "New International Version", abbreviation |-> "NIV" ]
BibleVersionInputs ==
    { PyStr(a) : a \in Abbreviations }
    \cup { BibleVersion(JsonNIV), PyInt(5) }

DayInputs == { 0, 1, 90, 366, 367 }

\* For (limit, page): the defaults and another pair.
PagingInputs == { << 366, 1 >>, << 10, 2 >> }

Tokens == { "TOKEN" }

\* For width, height and size: small, the default and largest allowed, and the
\* first one beyond it.
SizeInputs == { 1, MAX_SIZE, MAX_SIZE + 1 }

\* The day of the year on which the module is loaded and the client made.
LoadDay == 90

\* The days that pass after the module was loaded.
MaxElapsed == 2

---------------------------------------------------------------------------
(* The state machine: one action per operation of the client.              *)

\* The sequences of answers a method is run under: one answer, or two.
Answers(Responses) == [1..1 -> Responses] \cup [1..2 -> Responses]

\* The results of a method, given as a function of the answers of the service:
\* it is given one answer, and a second one when it asks for it.
Outcomes(method, Responses) ==
    LET first == { method[<< r >>] : r \in Responses }
        second == IF \E x \in first : x.outcome = Starved
                  THEN { method[<< r1, r2 >>] : r1 \in Responses, r2 \in Responses }
                  ELSE {}
    IN  { [ x EXCEPT !.resps = << >> ] : x \in { y \in first \cup second : y.outcome # Starved } }

Call(op, arg, res) ==
    [ op |-> op, arg |-> arg, outcome |-> res.outcome, value |-> res.value,
      requests |-> res.requests, received |-> res.received ]

NoImageCall == [ op |-> "none", arg |-> None, outcome |-> "return", value |-> None ]

\* The module is loaded, which evaluates current_day_of_year() for the default
\* of get_verse_of_the_day's day, and API.__init__ runs, with and without its
\* language argument.
Init ==
    \E tok \in Tokens, arg \in { None } \cup { PyStr(v) : v \in LanguageInputs } :
        LET set == language_setter("", IF arg = None THEN LanguageDict["English"] ELSE arg.v)
        IN  /\ set.outcome = "return"
            /\ token = tok
            /\ language = set.language
            /\ bible_version = KJV
            /\ supported_bible_version = EmptyDict
            /\ call = [ op |-> "__init__", arg |-> arg, outcome |-> "return",
                        value |-> None, requests |-> << >>, received |-> << >> ]
            /\ fetched = FALSE
            /\ assigned_version = KJV
            /\ assigned_language = set.language
            /\ image = None
            /\ image_call = NoImageCall
            /\ today = LoadDay
            /\ default_day = LoadDay

\* client.language = v
SetLanguage ==
    \E v \in LanguageInputs :
        LET set == language_setter(language, v)
        IN  /\ language' = set.language
            /\ assigned_language' =
                   IF set.outcome = "return" THEN set.language ELSE assigned_language
            /\ call' = [ op |-> "language", arg |-> PyStr(v), outcome |-> set.outcome,
                         value |-> None, requests |-> << >>, received |-> << >> ]
            /\ UNCHANGED << token, bible_version, supported_bible_version, fetched,
                            assigned_version >>
            /\ UNCHANGED << image, image_call, today, default_day >>

\* client.bible_version = v
SetBibleVersion ==
    \E v \in BibleVersionInputs :
        \E res \in Outcomes([ rs \in Answers(VersionsResponses) |->
                                bible_version_setter(token, language,
                                supported_bible_version, bible_version, v, rs) ],
                            VersionsResponses) :
            /\ bible_version' = res.value
            /\ assigned_version' =
                   IF res.outcome = "return" THEN res.value ELSE assigned_version
            /\ supported_bible_version' = res.cache
            /\ fetched' = (fetched \/ res.accessed)
            /\ call' = [ Call("bible_version", v, res) EXCEPT !.value = None ]
            /\ UNCHANGED << token, language, assigned_language >>
            /\ UNCHANGED << image, image_call, today, default_day >>

\* client.bible_versions
BibleVersions ==
    \E res \in Outcomes([ rs \in Answers(VersionsResponses) |->
                                bible_versions(token, language,
                                supported_bible_version, rs) ],
                        VersionsResponses) :
        /\ supported_bible_version' = res.cache
        /\ fetched' = (fetched \/ res.accessed)
        /\ call' = Call("bible_versions", None, res)
        /\ UNCHANGED << token, language, bible_version, assigned_version,
                        assigned_language >>
        /\ UNCHANGED << image, image_call, today, default_day >>

\* client.get_bible_version(a)
GetBibleVersion ==
    \E a \in Abbreviations :
        \E res \in Outcomes([ rs \in Answers(VersionsResponses) |->
                                get_bible_version(token, language,
                                supported_bible_version, a, rs) ],
                            VersionsResponses) :
            /\ supported_bible_version' = res.cache
            /\ fetched' = (fetched \/ res.accessed)
            /\ call' = Call("get_bible_version", PyStr(a), res)
            /\ UNCHANGED << token, language, bible_version, assigned_version,
                            assigned_language >>
            /\ UNCHANGED << image, image_call, today, default_day >>

\* client.supports_bible_version(a)
SupportsBibleVersion ==
    \E a \in Abbreviations :
        \E res \in Outcomes([ rs \in Answers(VersionsResponses) |->
                                supports_bible_version(token, language,
                                supported_bible_version, a, rs) ],
                            VersionsResponses) :
            /\ supported_bible_version' = res.cache
            /\ fetched' = (fetched \/ res.accessed)
            /\ call' = Call("supports_bible_version", PyStr(a), res)
            /\ UNCHANGED << token, language, bible_version, assigned_version,
                            assigned_language >>
            /\ UNCHANGED << image, image_call, today, default_day >>

\* client.get_verse_of_the_day(day)
GetVerseOfTheDay ==
    \E day \in DayInputs :
        \E res \in Outcomes([ rs \in Answers(VotdResponses) |->
                                get_verse_of_the_day(token, language,
                                supported_bible_version, bible_version, day, rs) ],
                            VotdResponses) :
            /\ call' = Call("get_verse_of_the_day", PyInt(day), res)
            /\ UNCHANGED << token, language, bible_version, supported_bible_version,
                            fetched, assigned_version, assigned_language >>
            /\ UNCHANGED << image, image_call, today, default_day >>

\* client.get_all_verse_of_the_days(limit, page)
GetAllVerseOfTheDays ==
    \E paging \in PagingInputs :
        \E res \in Outcomes([ rs \in Answers(BulkResponses) |->
                                get_all_verse_of_the_days(token, language,
                                supported_bible_version, bible_version,
                                paging[1], paging[2], rs) ],
                            BulkResponses) :
            /\ call' = Call("get_all_verse_of_the_days",
                            [ t |-> "args", limit |-> paging[1], page |-> paging[2] ],
                            res)
            /\ UNCHANGED << token, language, bible_version, supported_bible_version,
                            fetched, assigned_version, assigned_language >>
            /\ UNCHANGED << image, image_call, today, default_day >>

Next ==
    \/ SetLanguage
    \/ SetBibleVersion
    \/ BibleVersions
    \/ GetBibleVersion
    \/ SupportsBibleVersion
    \/ GetVerseOfTheDay
    \/ GetAllVerseOfTheDays

Spec == Init /\ [][Next]_vars

client_vars == << token, language, bible_version, supported_bible_version, call,
                 fetched, assigned_version, assigned_language >>

\* Image(verse, json): the caller comes to hold an Image of a response.
NewImage ==
    \E json \in ImageJsons :
        /\ image' = Image(Verse(bible_version, JsonVerse), json)
        /\ image_call' = [ op |-> "__init__", arg |-> None, outcome |-> "return",
                           value |-> None ]
        /\ UNCHANGED << client_vars, today, default_day >>

\* image.url(width, height)
ImageUrl ==
    \E width \in SizeInputs, height \in SizeInputs :
        LET res == Image_url(image, width, height)
        IN  /\ image # None
            /\ image_call' = [ op |-> "url", arg |-> [ width |-> width, height |-> height ],
                               outcome |-> res.outcome, value |-> res.value ]
            /\ UNCHANGED << client_vars, image, today, default_day >>

\* image.square_url(size)
ImageSquareUrl ==
    \E size \in SizeInputs :
        LET res == Image_square_url(image, size)
        IN  /\ image # None
            /\ image_call' = [ op |-> "square_url", arg |-> [ width |-> size, height |-> size ],
                               outcome |-> res.outcome, value |-> res.value ]
            /\ UNCHANGED << client_vars, image, today, default_day >>

NextImage ==
    \/ NewImage
    \/ ImageUrl
    \/ ImageSquareUrl

\* The operations of an Image.
SpecImage == Init /\ [][NextImage]_vars

\* A day passes.
Tick ==
    /\ today < LoadDay + MaxElapsed
    /\ today' = today + 1
    /\ UNCHANGED << client_vars, image, image_call, default_day >>

\* client.get_verse_of_the_day(), without a day: the parameter takes its
\* default, which was computed when the function was defined.
GetVerseOfTheDayDefault ==
    \E res \in Outcomes([ rs \in Answers(VotdResponses) |->
                            get_verse_of_the_day(token, language,
                            supported_bible_version, bible_version, default_day, rs) ],
                        VotdResponses) :
        /\ call' = Call("get_verse_of_the_day()", None, res)
        /\ UNCHANGED << token, language, bible_version, supported_bible_version,
                        fetched, assigned_version, assigned_language >>
        /\ UNCHANGED << image, image_call, today, default_day >>

NextClock ==
    \/ Tick
    \/ GetVerseOfTheDayDefault
    \/ SetLanguage
    \/ SetBibleVersion

\* The client over the days after the module was loaded.
SpecClock == Init /\ [][NextClock]_vars

---------------------------------------------------------------------------
(* Properties.                                                             *)

VersionsUrl == << BASE_URL, "versions" >>
SentVersionsRequest(c) == \E i \in 1..Len(c.requests) : c.requests[i].url = VersionsUrl

\* The lazy fetch of the call failed: the service answered with an error
\* status or with a document that has no 'data'.
FetchFailed(c) == c.outcome \in { "HTTPError", "TypeError" }
\* An answer to GET versions on which the fetch fails.
FailingAnswer(resp) == ~resp.ok \/ "data" \notin DOMAIN resp.json

\* C1: once an access of bible_versions has returned, no later operation sends
\* a request for the 'versions' resource.
C1_NoSecondFetch == [][ fetched => ~SentVersionsRequest(call') ]_vars

IsLookup(c) ==
    /\ c.op \in { "supports_bible_version", "get_bible_version" }
    /\ c.outcome \in { "return", "InvalidBibleVersion" }
\* The answer of the lookup: the abbreviation is supported.
LookupSaysSupported(c) ==
    IF c.op = "supports_bible_version" THEN c.value.v ELSE c.outcome = "return"

\* C4: supports_bible_version and get_bible_version, called one after the
\* other on the same client for the same abbreviation, agree.
C4_LookupsAgree ==
    [][ ( /\ IsLookup(call) /\ IsLookup(call')
          /\ call.op # call'.op /\ call.arg = call'.arg )
        => (LookupSaysSupported(call) <=> LookupSaysSupported(call')) ]_vars

\* C5: assigning the display name of a supported language sets its code,
\* assigning a supported code sets that code, every other value raises
\* UnsupportedLanguage.
C5_LanguageSetter ==
    call.op = "language" =>
        IF call.arg.v \in LanguageNames
        THEN call.outcome = "return" /\ language = LanguageAttributes[call.arg.v]
        ELSE IF call.arg.v \in LanguageCodes
        THEN call.outcome = "return" /\ language = call.arg.v
        ELSE call.outcome = "UnsupportedLanguage"

VotdUrl(day) == << BASE_URL, "verse_of_the_day", day >>

\* C6: get_verse_of_the_day(day) raises DayOutOfBounds for day < 1 and for
\* day > 366 without sending a request; for a day in 1..366 it does not raise
\* DayOutOfBounds and sends exactly one request, for verse_of_the_day/{day}.
C6_DayBounds ==
    call.op = "get_verse_of_the_day" =>
        IF call.arg.v < 1 \/ call.arg.v > 366
        THEN call.outcome = "DayOutOfBounds" /\ call.requests = << >>
        ELSE /\ call.outcome # "DayOutOfBounds"
             /\ Len(call.requests) = 1
             /\ call.requests[1].url = VotdUrl(call.arg.v)

\* The verse of day 366 was requested and returned.
C6_Witness ==
    /\ call.op = "get_verse_of_the_day" /\ call.arg = PyInt(366)
    /\ call.outcome = "return" /\ Len(call.requests) = 1

\* C7: the VerseOfTheDay that get_verse_of_the_day(day=d) returns has day = d.
C7_ReturnsRequestedDay ==
    (call.op = "get_verse_of_the_day" /\ call.outcome = "return")
        => call.value.day = PyInt(call.arg.v)

\* C8: a VerseOfTheDay that get_verse_of_the_day returns carries the current
\* Bible version, that of the last successful assignment, as its own and as
\* its verse's, and its request was sent with that version's id.
C8_CarriesCurrentVersion ==
    (call.op = "get_verse_of_the_day" /\ call.outcome = "return") =>
        /\ bible_version = assigned_version
        /\ call.value.bible_version = assigned_version
        /\ call.value.verse.bible_version = assigned_version
        /\ call.requests[1].params = [ version_id |-> assigned_version.id ]

\* A verse of the day was returned after ASV was assigned by abbreviation.
C8_Witness ==
    /\ call.op = "get_verse_of_the_day" /\ call.outcome = "return"
    /\ assigned_version = BibleVersion(JsonASV)
    /\ call.value.verse.bible_version.abbreviation = "ASV"

\* len() of the third element of the tuple, taking None as an empty list.
ListLen(votds) == IF votds.t = "list" THEN Len(votds.v) ELSE 0

\* C9: the list that get_all_verse_of_the_days returns has as many entries as
\* the count it returns.
C9_LengthIsCount ==
    (call.op = "get_all_verse_of_the_days" /\ call.outcome = "return")
        => ListLen(call.value.votds) = call.value.page_size

\* The list holds one VerseOfTheDay per entry of data.
IsListOf(votds, data) ==
    /\ votds.t = "list"
    /\ Len(votds.v) = Len(data)
    /\ \A i \in 1..Len(data) : votds.v[i].t = "VerseOfTheDay"

\* C10 (as stated): the third element is a list of VerseOfTheDay when the
\* response holds at least one entry, and None when it has no 'data' or a
\* 'data' list without entries.
C10_NoneIfEmpty ==
    (call.op = "get_all_verse_of_the_days" /\ call.outcome = "return") =>
        LET json == Head(call.received).json
        IN  IF "data" \in DOMAIN json /\ Len(Get(json, "data", << >>)) >= 1
            THEN IsListOf(call.value.votds, json["data"])
            ELSE call.value.votds = None

\* C10 (amended): the third element is None when the response is empty or has
\* no 'data', and otherwise a list with one VerseOfTheDay per entry of 'data':
\* the empty list when 'data' has no entries.
C10_NoneIfNoData ==
    (call.op = "get_all_verse_of_the_days" /\ call.outcome = "return") =>
        LET json == Head(call.received).json
        IN  IF "data" \in DOMAIN json
            THEN IsListOf(call.value.votds, json["data"])
            ELSE call.value.votds = None

\* The response held an empty 'data' list and the empty list was returned.
C10_Witness ==
    /\ call.op = "get_all_verse_of_the_days" /\ call.outcome = "return"
    /\ Head(call.received).json = [ data |-> << >> ]
    /\ call.value.votds = PyList(<< >>)

BulkUrl == << BASE_URL, "verse_of_the_day" >>
IsBulkCall(c) == c.op = "get_all_verse_of_the_days"

\* C11: whatever limit and page are, get_all_verse_of_the_days sends one
\* request, for verse_of_the_day with version_id of the current Bible version
\* as its only parameter; and two calls in a row that receive the same
\* response end the same way with the same result, whatever their limit and
\* page.
C11_PagingNotTransmitted ==
    [][ /\ IsBulkCall(call') =>
            /\ Len(call'.requests) = 1
            /\ call'.requests[1].url = BulkUrl
            /\ call'.requests[1].params = [ version_id |-> bible_version.id ]
        /\ (IsBulkCall(call) /\ IsBulkCall(call') /\ call.received = call'.received) =>
            /\ call'.outcome = call.outcome
            /\ call'.value = call.value
            /\ call'.requests = call.requests ]_vars

\* A call with limit 10 and page 2 has returned a list of two entries.
C11_Witness ==
    /\ IsBulkCall(call) /\ call.outcome = "return"
    /\ call.arg.limit = 10 /\ call.arg.page = 2
    /\ call.value.votds.t = "list" /\ Len(call.value.votds.v) = 2

\* The headers of every request of the call are these.
AllHeadersAre(c, headers) == \A i \in 1..Len(c.requests) : c.requests[i].headers = headers

\* C13: every request carries accept = application/json, the token passed at
\* construction, which no operation changes, and as accept-language the code
\* of the last successful language assignment.
C13_Headers ==
    [][ /\ token' = token
        /\ AllHeadersAre(call', [ accept |-> "application/json",
                                  x_youversion_developer_token |-> token,
                                  accept_language |-> assigned_language' ]) ]_vars

\* A request was sent after the language was set to Spanish.
C13_Witness ==
    /\ call.requests # << >>
    /\ call.requests[1].headers.accept_language = "es"
    /\ assigned_language = "es"

\* C14: a newly constructed client has language 'en' when none was given, the
\* King James Version (id 1, abbreviation KJV) as its Bible version and an
\* empty cache, and its construction sent no request.
C14_Construction ==
    call.op = "__init__" =>
        /\ call.arg = None => language = "en"
        /\ bible_version.id = PyInt(1)
        /\ bible_version.abbreviation = "KJV"
        /\ bible_version.title = "King James Version"
        /\ DOMAIN supported_bible_version = {}
        /\ call.requests = << >>

\* The client was constructed without a language.
C14_Witness ==
    /\ call.op = "__init__" /\ call.arg = None
    /\ language = "en" /\ bible_version.abbreviation = "KJV"

\* The first entry of the list with this abbreviation.
FirstWith(data, abbreviation) ==
    data[CHOOSE i \in 1..Len(data) :
            /\ Get(data[i], "abbreviation", "") = abbreviation
            /\ \A j \in 1..(i - 1) : Get(data[j], "abbreviation", "") # abbreviation]

\* C15: no operation removes or replaces an entry of the cache; every key is
\* the abbreviation of its BibleVersion; get_bible_version of a cached
\* abbreviation returns the cached BibleVersion; and of the entries of the
\* fetched list that share an abbreviation the first one is kept.
C15_CacheAppendOnly ==
    [][ /\ \A k \in DOMAIN supported_bible_version :
              /\ k \in DOMAIN supported_bible_version'
              /\ supported_bible_version'[k] = supported_bible_version[k]
        /\ \A k \in DOMAIN supported_bible_version' :
              supported_bible_version'[k].abbreviation = k
        /\ ( /\ call'.op = "get_bible_version"
             /\ call'.arg.v \in DOMAIN supported_bible_version ) =>
              /\ call'.outcome = "return"
              /\ call'.value = supported_bible_version[call'.arg.v]
        /\ ( /\ DOMAIN supported_bible_version = {}
             /\ DOMAIN supported_bible_version' # {} ) =>
              \A k \in DOMAIN supported_bible_version' :
                  supported_bible_version'[k] =
                      BibleVersion(FirstWith(Head(call'.received).json["data"], k)) ]_vars

\* The fetched list named ASV twice and the cache holds the first of the two.
C15_Witness ==
    /\ call.received = << OkResponse([ data |-> << JsonASV, JsonASVOther >> ]) >>
    /\ DOMAIN supported_bible_version = { "ASV" }
    /\ supported_bible_version["ASV"] = BibleVersion(JsonASV)

FailedAssignment(c) ==
    \/ c.op = "language" /\ c.outcome = "UnsupportedLanguage"
    \/ c.op = "bible_version" /\ c.outcome = "InvalidBibleVersion"

\* C17: an assignment that raises UnsupportedLanguage or InvalidBibleVersion
\* leaves the current language and the current Bible version as they were, so
\* that both are always those of the last successful assignment.
C17_FailedAssignmentKeepsSelection ==
    [][ /\ FailedAssignment(call') =>
              language' = language /\ bible_version' = bible_version
        /\ language' = assigned_language'
        /\ bible_version' = assigned_version' ]_vars

\* An assignment has failed on a client whose language and Bible version were
\* both assigned before.
C17_Witness ==
    /\ FailedAssignment(call)
    /\ language = "es" /\ bible_version = BibleVersion(JsonASV)

IsImageCall(c) == c.op \in { "url", "square_url" }

\* The template with every {width} and {height} replaced at once.
Substituted(template, width, height) ==
    [ i \in 1..Len(template) |->
        IF template[i] = "{width}" THEN ToString(width)
        ELSE IF template[i] = "{height}" THEN ToString(height)
        ELSE template[i] ]

\* C12: url(width, height) raises InvalidImageSize when width or height is
\* above 1280 and otherwise returns the template with {width} and {height}
\* replaced by them; square_url(size) ends as url(size, size) does; the image
\* and its template stay as they were; and a URL is returned only for
\* dimensions of at most 1280.
C12_ImageUrl ==
    [][ IsImageCall(image_call') =>
          LET width == image_call'.arg.width
              height == image_call'.arg.height
          IN  /\ image' = image
              /\ image_call'.op = "square_url" => width = height
              /\ (width > 1280 \/ height > 1280) =>
                    image_call'.outcome = "InvalidImageSize"
              /\ (width <= 1280 /\ height <= 1280) =>
                    /\ image_call'.outcome = "return"
                    /\ image_call'.value = PyStr(Substituted(image.url, width, height))
              /\ image_call'.outcome = "return" =>
                    \A i \in 1..Len(image.url) :
                        /\ image.url[i] = "{width}" =>
                              image_call'.value.v[i] \in { ToString(n) : n \in 0..1280 }
                        /\ image.url[i] = "{height}" =>
                              image_call'.value.v[i] \in { ToString(n) : n \in 0..1280 } ]_vars

\* url(1, 1280) has returned a URL of the image whose template names both.
C12_Witness ==
    /\ image_call.op = "url" /\ image_call.outcome = "return"
    /\ image_call.arg = [ width |-> 1, height |-> 1280 ]
    /\ image_call.value = PyStr(<< "https:", "//imageproxy.youversionapi.com/", "1", "x",
                                   "1280", "/votd.jpg" >>)

\* C16: a call of get_verse_of_the_day without a day requests the verse for
\* the day that is current when it is made.
C16_DefaultDayIsToday ==
    [][ ( /\ call'.op = "get_verse_of_the_day()"
          /\ today' = today
          /\ call'.requests # << >> ) =>
            call'.requests[1].url = VotdUrl(today) ]_vars

====
